---- MODULE Spec2Model ----
(***************************************************************************)
(* Emergency Voice Helpdesk (src/main.py): the Streamlit script that takes *)
(* an uploaded or live-recorded voice message, runs the five collaborators *)
(* over it, stores the analysis in the session state and renders the       *)
(* emergency summary.                                                      *)
(*                                                                         *)
(* Streamlit runs the script top to bottom once per user interaction, one  *)
(* script thread per browser session, all threads in one server process    *)
(* with one working directory.  A script run is modelled as three steps,   *)
(* cut at the accesses to the only object two sessions share, the file     *)
(* "recorded_voice.wav":                                                   *)
(*   StartRun    lines 37-87  (widgets, save_audio, record_audio)          *)
(*               and, when there is no audio, lines 110-158                *)
(*   Transcribe  line 89      (transcribe_audio reads the file)            *)
(*   Analyze     lines 90-158 (detect_emotion reads the file, the rest of  *)
(*               the pipeline, session_state.update, the display)          *)
(*                                                                         *)
(* Python values: an optional value is a sequence of length at most one,   *)
(* None == <<>> and Some(x) == <<x>>.  Floats are fixed-point integers:    *)
(* coordinates in 1/10000 degree, confidence in 1/100.                     *)
(***************************************************************************)
EXTENDS Integers, Sequences, FiniteSets, TLC

VARIABLES
    session_state,   \* st.session_state of each session (8 keys)
    uploader,        \* value of the st.file_uploader widget of each session
    recorded_voice,  \* content of the file "recorded_voice.wav" (shared)
    pc,              \* position of each session's script thread
    audio_input,     \* local audio_input of the running script
    transcript,      \* local transcript of the running script
    calls,           \* collaborator calls made by the current / last run
    rendered,        \* what the current / last run put on the page
    run_status,      \* how the current / last run ended
    captured,        \* audio the session itself supplied to the current / last run
    heard,           \* audio the transcription of the current run read
    analysed,        \* the last successful analysis: audio read, values stored
    before           \* session_state and analysed as the current / last run found them

vars == <<session_state, uploader, recorded_voice, pc, audio_input, transcript,
          calls, rendered, run_status, captured, heard, analysed, before>>

----------------------------------------------------------------------------
(* Bounds *)

\* number of distinct audio contents a user can upload or speak
NumAudio == 10

Audio == 1..NumAudio

\* the same, when two sessions run side by side
NumConcurrentAudio == 2

ConcurrentAudio == 1..NumConcurrentAudio

Sessions == {"A", "B"}

----------------------------------------------------------------------------
(* Python values *)

None == <<>>

Some(x) == <<x>>

Val(v) == v[1]

\* truth value of an optional string: None and "" are false
TruthyStr(v) == v # None /\ Val(v) # ""

\* truth value of an optional tuple or list: None, () and [] are false
TruthySeq(v) == v # None /\ Val(v) # <<>>

RecordedPath == "recorded_voice.wav"

UploadPath == "upload"

Keys == {"audio_processed", "transcript", "emotion", "confidence", "entities",
         "location_text", "coords", "help_centers"}

ResultKeys == Keys \ {"audio_processed"}

----------------------------------------------------------------------------
(* The collaborators (src.transcription, src.emotion_detection,            *)
(* src.entity_extraction, src.map_utils, src.audio_processing), which are  *)
(* imported by main.py and are deterministic functions of their inputs.    *)

Utterances == <<"There is a fire near Lotus Street",
                "Please help me",
                "Accident at Nowhere Lane",
                "Flood on Remote Island",
                "Help at">>

EmotionOutputs == << <<Some("Fearful"), 91>>, <<Some("Sad"), 40>>, <<Some("Zen"), 75>>,
                     <<Some("Neutral"), 100>>, <<None, 0>>, <<Some("Angry"), 66>>,
                     <<Some("Disgust"), 50>>, <<Some("Surprised"), 33>>,
                     <<Some("Calm"), 80>>, <<Some("Happy"), 99>> >>

transcribe_audio(a) == Utterances[((a - 1) % Len(Utterances)) + 1]

detect_emotion(a) == EmotionOutputs[((a - 1) % Len(EmotionOutputs)) + 1]

EmptyMapping == [k \in {} |-> ""]

extract_entities(text) ==
    CASE text = "There is a fire near Lotus Street" ->
             [incident |-> "fire", location |-> "Lotus Street"]
      [] text = "Accident at Nowhere Lane" ->
             [incident |-> "accident", location |-> "Nowhere Lane"]
      [] text = "Flood on Remote Island" ->
             [incident |-> "flood", location |-> "Remote Island"]
      [] text = "Help at" -> [location |-> ""]
      [] OTHER -> EmptyMapping

\* location is the Python value passed: a string, or None
get_coordinates(location) ==
    CASE location = Some("Lotus Street") -> Some(<<129716, 775946>>)
      [] location = Some("Remote Island") -> Some(<<-401230, 1750456>>)
      [] OTHER -> None

get_nearby_help(lat, lon, type) ==
    IF type = "hospital" /\ <<lat, lon>> = <<129716, 775946>>
    THEN << [name |-> "City Hospital", lat |-> 129720, lon |-> 775950],
            [name |-> "Lotus Clinic", lat |-> 129700, lon |-> 775900] >>
    ELSE <<>>

\* the handle of the persisted upload
save_audio(audio_file) == UploadPath

\* the audio behind a handle, as session s reads it
ReadAudio(s, path) == IF path = Some(RecordedPath) THEN Val(recorded_voice) ELSE Val(uploader[s])

----------------------------------------------------------------------------
(* Display (lines 16-24 and 107-158).  The page is the sequence of the     *)
(* elements the st.* calls emit, each [el |-> kind, data |-> content].     *)

El(kind, data) == [el |-> kind, data |-> data]

priority_styles ==
    [e \in {"Fearful", "Angry", "Sad", "Disgust", "Surprised", "Neutral", "Calm", "Happy"} |->
       CASE e = "Fearful"   -> [level |-> "High",   color |-> "#e60000", emoji |-> "fearful"]
         [] e = "Angry"     -> [level |-> "High",   color |-> "#e60000", emoji |-> "angry"]
         [] e = "Sad"       -> [level |-> "Medium", color |-> "#ffa500", emoji |-> "sad"]
         [] e = "Disgust"   -> [level |-> "Medium", color |-> "#ffa500", emoji |-> "disgust"]
         [] e = "Surprised" -> [level |-> "Medium", color |-> "#ffa500", emoji |-> "surprised"]
         [] e = "Neutral"   -> [level |-> "Low",    color |-> "#2eb82e", emoji |-> "neutral"]
         [] e = "Calm"      -> [level |-> "Low",    color |-> "#2eb82e", emoji |-> "calm"]
         [] e = "Happy"     -> [level |-> "Low",    color |-> "#2eb82e", emoji |-> "happy"]]

\* the lookup with a default of Medium instead of Low
StyleOf_DefaultMedium(emo) ==
    IF emo # None /\ Val(emo) \in DOMAIN priority_styles
    THEN priority_styles[Val(emo)]
    ELSE [level |-> "Medium", color |-> "gray", emoji |-> "brain"]

\* priority_styles.get(emo, {"level": "Low", "color": "gray", ...})
StyleOf(emo) ==
    IF emo # None /\ Val(emo) \in DOMAIN priority_styles
    THEN priority_styles[Val(emo)]
    ELSE [level |-> "Low", color |-> "gray", emoji |-> "brain"]

Marker(lat, lon, popup, color) ==
    [at |-> <<lat, lon>>, popup |-> popup, color |-> color]

CenterMarkers(help_centers) ==
    [i \in 1..Len(help_centers) |->
        Marker(help_centers[i].lat, help_centers[i].lon, help_centers[i].name, "blue")]

ZoomStart == 14

display_folium_map(lat, lon, help_centers) ==
    <<El("folium_map",
         [location |-> <<lat, lon>>, zoom_start |-> ZoomStart,
          markers |-> <<Marker(lat, lon, "Reported Location", "red")>>
                      \o CenterMarkers(help_centers)])>>

HospitalCards(help_centers) ==
    [i \in 1..Len(help_centers) |-> El("hospital_card", help_centers[i])]

\* the hospital list without its else branch
HospitalList_Omitted(help_centers) ==
    IF TruthySeq(help_centers)
    THEN <<El("markdown", "Nearest Hospitals")>> \o HospitalCards(Val(help_centers))
    ELSE <<>>

\* lines 150-156
HospitalList(help_centers) ==
    IF TruthySeq(help_centers)
    THEN <<El("markdown", "Nearest Hospitals")>> \o HospitalCards(Val(help_centers))
    ELSE <<El("info", "No hospitals found nearby.")>>

\* lines 140-158
LocationSection(ss) ==
    IF TruthyStr(ss.location_text) /\ TruthySeq(ss.coords)
    THEN LET lat == Val(ss.coords)[1]
             lon == Val(ss.coords)[2]
         IN <<El("markdown", "Location & Nearby Hospitals"),
              El("success", <<Val(ss.location_text), lat, lon>>)>>
            \o display_folium_map(lat, lon, Val(ss.help_centers))
            \o HospitalList(ss.help_centers)
    ELSE <<El("warning", "Location not found in the audio.")>>

\* lines 111-138
Summary(ss) ==
    LET emo   == ss.emotion
        style == StyleOf(emo)
    IN <<El("markdown", "Emergency Summary"),
         El("transcription", ss.transcript),
         El("json", ss.entities),
         El("badge", [color |-> style.color, emoji |-> style.emoji, emo |-> emo,
                      level |-> style.level, confidence |-> ss.confidence])>>

\* the display without its guard on audio_processed
Display_Unguarded(ss) == Summary(ss) \o LocationSection(ss)

\* lines 110-158: what the script shows below the input section
Display(ss) ==
    IF ss.audio_processed = Some(TRUE)
    THEN Summary(ss) \o LocationSection(ss)
    ELSE <<>>

----------------------------------------------------------------------------
(* State *)

\* lines 37-40: every key starts as None
InitialState == [k \in Keys |-> None]

NoAnalysis == <<>>

Init ==
    /\ session_state = [s \in Sessions |-> InitialState]
    /\ uploader = [s \in Sessions |-> None]
    /\ recorded_voice = None
    /\ pc = [s \in Sessions |-> "idle"]
    /\ audio_input = [s \in Sessions |-> None]
    /\ transcript = [s \in Sessions |-> None]
    /\ calls = [s \in Sessions |-> <<>>]
    /\ rendered = [s \in Sessions |-> <<>>]
    /\ run_status = [s \in Sessions |-> "none"]
    /\ captured = [s \in Sessions |-> None]
    /\ heard = [s \in Sessions |-> None]
    /\ analysed = [s \in Sessions |-> NoAnalysis]
    /\ before = [s \in Sessions |-> [state |-> InitialState, analysed |-> NoAnalysis]]

Call(fn, args) == [fn |-> fn, args |-> args]

\* lines 26-32: the file is written under the same name by every session
record_audio(mic) == Some(mic)

\* A user interaction starts a run (lines 37-87, and lines 110-158 when there is
\* nothing to analyse): the upload widget holds up, the record button is
\* pressed or not, mic is what the microphone hears.
StartRun(s, up, press, mic) ==
    /\ pc[s] = "idle"
    /\ uploader' = [uploader EXCEPT ![s] = up]
    /\ recorded_voice' = IF press THEN record_audio(mic) ELSE recorded_voice
    /\ LET uploaded == IF up # None THEN Some(save_audio(up)) ELSE None
           input    == IF press THEN Some(RecordedPath) ELSE uploaded
           auto_trigger == up # None \/ press
       IN /\ audio_input' = [audio_input EXCEPT ![s] = input]
          /\ captured' = [captured EXCEPT ![s] = IF press THEN Some(mic) ELSE up]
          /\ IF TruthyStr(input) \/ auto_trigger
             THEN /\ pc' = [pc EXCEPT ![s] = "transcribe"]
                  /\ run_status' = [run_status EXCEPT ![s] = "running"]
                  /\ rendered' = [rendered EXCEPT ![s] = <<>>]
             ELSE /\ pc' = pc
                  /\ run_status' = [run_status EXCEPT ![s] = "no_audio"]
                  /\ rendered' = [rendered EXCEPT ![s] = Display(session_state[s])]
    /\ calls' = [calls EXCEPT ![s] = <<>>]
    /\ transcript' = [transcript EXCEPT ![s] = None]
    /\ heard' = [heard EXCEPT ![s] = None]
    /\ before' = [before EXCEPT ![s] = [state |-> session_state[s], analysed |-> analysed[s]]]
    /\ UNCHANGED <<session_state, analysed>>

\* the exception swallowed: the script goes on to the display
Abort_ShowStored(s, fn) ==
    /\ pc' = [pc EXCEPT ![s] = "idle"]
    /\ run_status' = [run_status EXCEPT ![s] = fn]
    /\ rendered' = [rendered EXCEPT ![s] = Display(session_state[s])]
    /\ UNCHANGED <<session_state, analysed>>

\* An unhandled exception ends the script run where it is raised.
Abort(s, fn) ==
    /\ pc' = [pc EXCEPT ![s] = "idle"]
    /\ run_status' = [run_status EXCEPT ![s] = fn]
    /\ rendered' = [rendered EXCEPT ![s] = <<>>]
    /\ UNCHANGED <<session_state, analysed>>

\* line 89
Transcribe(s, fault) ==
    /\ pc[s] = "transcribe"
    /\ calls' = [calls EXCEPT ![s] = Append(@, Call("transcribe_audio", <<audio_input[s]>>))]
    /\ heard' = [heard EXCEPT ![s] = Some(ReadAudio(s, audio_input[s]))]
    /\ IF fault
       THEN /\ Abort(s, "transcribe_audio")
            /\ UNCHANGED transcript
       ELSE /\ transcript' = [transcript EXCEPT
                                ![s] = Some(transcribe_audio(ReadAudio(s, audio_input[s])))]
            /\ pc' = [pc EXCEPT ![s] = "analyze"]
            /\ UNCHANGED <<session_state, analysed, rendered, run_status>>
    /\ UNCHANGED <<uploader, recorded_voice, audio_input, captured, before>>

\* entities.get("location")
GetLocation(entities) ==
    IF "location" \in DOMAIN entities THEN Some(entities["location"]) ELSE None

Collaborators == <<"transcribe_audio", "detect_emotion", "extract_entities",
                   "get_coordinates", "get_nearby_help">>

\* geocoding whatever entities.get returned
NeedsGeocode_Always(location_text) == TRUE

\* line 94: ... if location_text else None
NeedsGeocode(location_text) == TruthyStr(location_text)

\* line 95: ... if coords else []
NeedsNearby(coords) == TruthySeq(coords)

\* Lines 90-95 for session s, with the collaborator named by fault raising when
\* it is called ("none": nobody raises).  The calls made, the collaborator that
\* raised, and the values of the locals.
Pipeline(s, fault) ==
    LET path  == audio_input[s]
        c1    == <<Call("detect_emotion", <<path>>)>>
        em    == detect_emotion(ReadAudio(s, path))
        c2    == c1 \o <<Call("extract_entities", <<transcript[s]>>)>>
        entities == extract_entities(Val(transcript[s]))
        location_text == GetLocation(entities)
        geo   == NeedsGeocode(location_text)
        c3    == IF geo THEN c2 \o <<Call("get_coordinates", <<location_text>>)>> ELSE c2
        coords == IF geo THEN get_coordinates(location_text) ELSE None
        near  == NeedsNearby(coords)
        c4    == IF near
                 THEN c3 \o <<Call("get_nearby_help", <<Val(coords)[1], Val(coords)[2], "hospital">>)>>
                 ELSE c3
        help_centers == IF near
                        THEN get_nearby_help(Val(coords)[1], Val(coords)[2], "hospital")
                        ELSE <<>>
        locals == [transcript    |-> transcript[s],
                   emotion       |-> em[1],
                   confidence    |-> Some(em[2]),
                   entities      |-> Some(entities),
                   location_text |-> location_text,
                   coords        |-> coords,
                   help_centers  |-> Some(help_centers)]
    IN  CASE fault = "detect_emotion"            -> [calls |-> c1, raised |-> fault, locals |-> locals]
          [] fault = "extract_entities"          -> [calls |-> c2, raised |-> fault, locals |-> locals]
          [] fault = "get_coordinates" /\ geo    -> [calls |-> c3, raised |-> fault, locals |-> locals]
          [] fault = "get_nearby_help" /\ near   -> [calls |-> c4, raised |-> fault, locals |-> locals]
          [] OTHER                               -> [calls |-> c4, raised |-> "none", locals |-> locals]

\* an update that does not overwrite stored coordinates with None
Update_KeepCoords(old, locals) ==
    [k \in Keys |-> IF k = "audio_processed" THEN Some(TRUE)
                    ELSE IF k = "coords" /\ locals[k] = None THEN old[k]
                    ELSE locals[k]]

\* an update that does not overwrite a stored hospital list with an empty one
Update_KeepHelp(old, locals) ==
    [k \in Keys |-> IF k = "audio_processed" THEN Some(TRUE)
                    ELSE IF k = "help_centers" /\ locals[k] = Some(<<>>) /\ old[k] # None THEN old[k]
                    ELSE locals[k]]

\* an update that sets the confidence only once
Update_ConfidenceOnce(old, locals) ==
    [k \in Keys |-> IF k = "audio_processed" THEN Some(TRUE)
                    ELSE IF k = "confidence" /\ old[k] # None THEN old[k]
                    ELSE locals[k]]

\* an update that appends the new hospitals to the stored ones
Update_Accumulate(old, locals) ==
    [k \in Keys |-> IF k = "audio_processed" THEN Some(TRUE)
                    ELSE IF k = "help_centers" /\ old[k] # None
                         THEN Some(Val(old[k]) \o Val(locals[k]))
                    ELSE locals[k]]

\* lines 97-106: st.session_state.update({...})
Update(old, locals) ==
    [k \in Keys |-> IF k = "audio_processed" THEN Some(TRUE) ELSE locals[k]]

\* lines 90-158
Analyze(s, fault) ==
    /\ pc[s] = "analyze"
    /\ LET p == Pipeline(s, fault)
       IN /\ calls' = [calls EXCEPT ![s] = @ \o p.calls]
          /\ IF p.raised # "none"
             THEN Abort(s, p.raised)
             ELSE LET new == Update(session_state[s], p.locals)
                  IN /\ session_state' = [session_state EXCEPT ![s] = new]
                     /\ rendered' = [rendered EXCEPT
                                       ![s] = <<El("success", "Emergency Analyzed")>> \o Display(new)]
                     /\ analysed' = [analysed EXCEPT
                                       ![s] = Some([t |-> Val(heard[s]),
                                                    e |-> ReadAudio(s, audio_input[s]),
                                                    result |-> p.locals])]
                     /\ run_status' = [run_status EXCEPT ![s] = "ok"]
                     /\ pc' = [pc EXCEPT ![s] = "idle"]
    /\ UNCHANGED <<uploader, recorded_voice, audio_input, captured, transcript, heard, before>>

Opt(S) == {None} \cup {Some(a) : a \in S}

Faults == {Collaborators[i] : i \in 2..5}

\* the steps of session s, with the users' audio drawn from sounds and the
\* collaborators raising or not as faulty says
Step(s, sounds, faulty) ==
    \/ \E up \in Opt(sounds), press \in BOOLEAN, mic \in sounds : StartRun(s, up, press, mic)
    \/ \E fault \in {FALSE} \cup faulty : Transcribe(s, fault)
    \/ \E fault \in {"none"} \cup (IF TRUE \in faulty THEN Faults ELSE {}) : Analyze(s, fault)

\* one browser session
Next == Step("A", Audio, {TRUE})

Spec == Init /\ [][Next]_vars

\* two browser sessions on one server, collaborators that do not raise
NextConcurrent == \E s \in Sessions : Step(s, ConcurrentAudio, {})

Concurrent == Init /\ [][NextConcurrent]_vars

----------------------------------------------------------------------------
(* Vocabulary of the properties *)

Present(v) == v # None

Faulted(s) == \E i \in DOMAIN Collaborators : run_status[s] = Collaborators[i]

Elements(page, kind) == {i \in DOMAIN page : page[i].el = kind}

HasSummary(page) ==
    \E i \in Elements(page, "markdown") : page[i].data = "Emergency Summary"

HasText(page, kind, text) == \E i \in Elements(page, kind) : page[i].data = text

SameResult(x, y) == \A k \in ResultKeys : x[k] = y[k]

\* The analysis as a function of the audio alone: t is the audio the
\* transcription reads, e the audio the emotion detection reads.
AnalysisOf(t, e) ==
    LET text == transcribe_audio(t)
        ents == extract_entities(text)
        loc  == GetLocation(ents)
        co   == IF loc = None \/ loc = Some("") THEN None ELSE get_coordinates(loc)
        hc   == IF co = None THEN <<>> ELSE get_nearby_help(Val(co)[1], Val(co)[2], "hospital")
    IN [transcript    |-> Some(text),
        emotion       |-> detect_emotion(e)[1],
        confidence    |-> Some(detect_emotion(e)[2]),
        entities      |-> Some(ents),
        location_text |-> loc,
        coords        |-> co,
        help_centers  |-> Some(hc)]

Rank(fn) == CHOOSE i \in DOMAIN Collaborators : Collaborators[i] = fn

Called(s, fn) == \E i \in DOMAIN calls[s] : calls[s][i].fn = fn

----------------------------------------------------------------------------
(* Properties *)

\* C1: in every reachable session state the stored help_centers is non-empty
\* only if the stored coords is present, and the stored coords is present only
\* if the stored location_text is present.
C1_LocationChain ==
    \A s \in Sessions :
       LET ss == session_state[s]
       IN /\ TruthySeq(ss.help_centers) => Present(ss.coords)
          /\ Present(ss.coords) => Present(ss.location_text)

\* a faulted run that came after an analysis which stored hospitals
C1_Witness ==
    \E s \in Sessions :
       /\ Faulted(s)
       /\ TruthySeq(session_state[s].help_centers)
       /\ Present(session_state[s].coords)

\* C2: after an analysis whose extracted entities have no location, the stored
\* coords is absent and the stored help_centers is the empty list, whatever an
\* earlier analysis had stored.
C2_NoStaleLocation ==
    \A s \in Sessions :
       LET ss == session_state[s]
       IN (run_status[s] = "ok" /\ "location" \notin DOMAIN Val(ss.entities))
             => /\ ss.coords = None
                /\ ss.help_centers = Some(<<>>)

\* an analysis without a location that found coordinates and hospitals stored
C2_Witness ==
    \E s \in Sessions :
       /\ run_status[s] = "ok"
       /\ "location" \notin DOMAIN Val(session_state[s].entities)
       /\ TruthySeq(before[s].state.coords)
       /\ TruthySeq(before[s].state.help_centers)
       /\ session_state[s].coords = None

\* C3: a collaborator that raises aborts the run: its call is the last call of
\* the run, the stored fields are those the run found, and the run shows
\* nothing; nor is anything stored or shown while a run is under way.
C3_FaultAborts ==
    \A s \in Sessions :
       /\ Faulted(s) =>
             /\ pc[s] = "idle"
             /\ calls[s] # <<>>
             /\ calls[s][Len(calls[s])].fn = run_status[s]
             /\ session_state[s] = before[s].state
             /\ rendered[s] = <<>>
       /\ pc[s] # "idle" =>
             /\ session_state[s] = before[s].state
             /\ rendered[s] = <<>>

\* the nearby-help lookup raised in a session that holds an earlier analysis
C3_Witness ==
    \E s \in Sessions :
       /\ run_status[s] = "get_nearby_help"
       /\ session_state[s].audio_processed = Some(TRUE)
       /\ rendered[s] = <<>>

\* C5: a run without audio leaves the seven result fields as it found them, a
\* run whose analysis succeeds sets all seven to the values computed from the
\* audio of that run, and in every state the seven fields are either all as
\* the run found them or all freshly computed.
C5_WholesaleReplace ==
    \A s \in Sessions :
       LET ss    == session_state[s]
           old   == before[s].state
           fresh == AnalysisOf(Val(analysed[s]).t, Val(analysed[s]).e)
       IN /\ run_status[s] = "no_audio" => SameResult(ss, old)
          /\ run_status[s] = "ok" => SameResult(ss, fresh)
          /\ run_status[s] # "ok" => SameResult(ss, old)

\* an analysis that replaced a stored result differing in transcript,
\* emotion, coordinates and hospitals
C5_Witness ==
    \E s \in Sessions :
       /\ run_status[s] = "ok"
       /\ before[s].state.audio_processed = Some(TRUE)
       /\ before[s].state.transcript # session_state[s].transcript
       /\ before[s].state.emotion # session_state[s].emotion
       /\ TruthySeq(before[s].state.help_centers)
       /\ session_state[s].coords = None

\* C6: the priority lookup resolves every label: Fearful and Angry are High,
\* Sad, Disgust and Surprised are Medium, Neutral, Calm and Happy are Low, the
\* labels of the table share one colour per level and the three colours
\* differ, any other label and the absent emotion are Low and gray; and the
\* badge of a rendered summary carries the lookup of the stored emotion.
C6_Priority ==
    LET High   == {"Fearful", "Angry"}
        Medium == {"Sad", "Disgust", "Surprised"}
        Low    == {"Neutral", "Calm", "Happy"}
        Others == {Some("Zen"), Some(""), Some("fearful"), Some("High"), None}
        LevelOf(emo) == IF emo = None THEN "Low"
                        ELSE IF Val(emo) \in High THEN "High"
                        ELSE IF Val(emo) \in Medium THEN "Medium"
                        ELSE "Low"
    IN /\ \A l \in High : StyleOf(Some(l)).level = "High"
       /\ \A l \in Medium : StyleOf(Some(l)).level = "Medium"
       /\ \A l \in Low : StyleOf(Some(l)).level = "Low"
       /\ \A l, m \in High \cup Medium \cup Low :
             (StyleOf(Some(l)).level = StyleOf(Some(m)).level)
                <=> (StyleOf(Some(l)).color = StyleOf(Some(m)).color)
       /\ \A o \in Others : StyleOf(o).level = "Low" /\ StyleOf(o).color = "gray"
       /\ \A s \in Sessions : \A i \in Elements(rendered[s], "badge") :
             LET badge == rendered[s][i].data
             IN /\ badge.emo = session_state[s].emotion
                /\ badge.level = LevelOf(badge.emo)
                /\ badge.color = IF badge.emo # None /\ Val(badge.emo) \in High \cup Medium \cup Low
                                 THEN StyleOf(Some(CHOOSE l \in High \cup Medium \cup Low :
                                                     LevelOf(Some(l)) = badge.level)).color
                                 ELSE "gray"

\* a summary whose badge shows a label that is not in the table
C6_Witness ==
    \E s \in Sessions : \E i \in Elements(rendered[s], "badge") :
       /\ rendered[s][i].data.emo = Some("Zen")
       /\ rendered[s][i].data.level = "Low"
       /\ rendered[s][i].data.color = "gray"

\* C7: a rendered summary holds exactly one of the map and the "Location not
\* found" warning; the map is there, centred at the stored coords, iff
\* location_text and coords are both present; and a map with an empty
\* help_centers comes with "No hospitals found nearby." and no hospital list.
C7_ExplicitNotFound ==
    \A s \in Sessions :
       LET page  == rendered[s]
           ss    == session_state[s]
           maps  == Elements(page, "folium_map")
           warns == Elements(page, "warning")
       IN HasSummary(page) =>
             /\ Cardinality(maps) + Cardinality(warns) = 1
             /\ (maps # {}) <=> (Present(ss.location_text) /\ Present(ss.coords))
             /\ \A i \in maps : page[i].data.location = Val(ss.coords)
             /\ \A i \in warns : page[i].data = "Location not found in the audio."
             /\ (maps # {} /\ ss.help_centers = Some(<<>>)) =>
                   /\ HasText(page, "info", "No hospitals found nearby.")
                   /\ Elements(page, "hospital_card") = {}
                   /\ ~HasText(page, "markdown", "Nearest Hospitals")
             /\ (maps # {} /\ ss.help_centers # Some(<<>>)) =>
                   /\ ~HasText(page, "info", "No hospitals found nearby.")
                   /\ Cardinality(Elements(page, "hospital_card")) = Len(Val(ss.help_centers))

\* a summary with a map and no hospital near it
C7_Witness ==
    \E s \in Sessions :
       /\ HasSummary(rendered[s])
       /\ Elements(rendered[s], "folium_map") # {}
       /\ session_state[s].help_centers = Some(<<>>)
       /\ HasText(rendered[s], "info", "No hospitals found nearby.")

\* C8: an analysis that reads the same audio as the analysis before it in the
\* session stores the same seven fields.
C8_Idempotent ==
    \A s \in Sessions :
       (/\ run_status[s] = "ok"
        /\ before[s].analysed # NoAnalysis
        /\ Val(before[s].analysed).t = Val(analysed[s]).t
        /\ Val(before[s].analysed).e = Val(analysed[s]).e)
          => SameResult(session_state[s], before[s].state)

\* a rerun with the same upload selected, the upload having hospitals near it
C8_Witness ==
    \E s \in Sessions :
       /\ run_status[s] = "ok"
       /\ before[s].analysed # NoAnalysis
       /\ Val(before[s].analysed).t = Val(analysed[s]).t
       /\ Val(before[s].analysed).e = Val(analysed[s]).e
       /\ audio_input[s] = Some(UploadPath)
       /\ TruthySeq(session_state[s].help_centers)

\* C9: the calls of a run are made in the order transcription, emotion
\* detection, entity extraction on the run's transcript, geocoding, nearby
\* help; geocoding only with a present location text, nearby help only
\* with the coordinates geocoding returned and the type "hospital"; a skipped
\* geocoding leaves coords absent and a skipped lookup leaves help_centers [].
C9_CallOrder ==
    \A s \in Sessions :
       LET c  == calls[s]
           ss == session_state[s]
       IN /\ \A i, j \in DOMAIN c : i < j => Rank(c[i].fn) < Rank(c[j].fn)
          /\ \A i \in DOMAIN c : i <= 3 => c[i].fn = Collaborators[i]
          /\ Len(c) >= 3 => c[3].args = <<transcript[s]>>
          /\ \A i \in DOMAIN c : c[i].fn = "get_coordinates" =>
                /\ Present(c[i].args[1])
                /\ c[i].args[1] = GetLocation(extract_entities(Val(transcript[s])))
          /\ \A i \in DOMAIN c : c[i].fn = "get_nearby_help" =>
                /\ c[i - 1].fn = "get_coordinates"
                /\ get_coordinates(c[i - 1].args[1]) = Some(<<c[i].args[1], c[i].args[2]>>)
                /\ c[i].args[3] = "hospital"
          /\ run_status[s] = "ok" =>
                /\ Len(c) >= 3
                /\ ~Called(s, "get_coordinates") => ss.coords = None
                /\ ~Called(s, "get_nearby_help") => ss.help_centers = Some(<<>>)

\* a run that called all five collaborators
C9_Witness ==
    \E s \in Sessions :
       /\ run_status[s] = "ok"
       /\ Len(calls[s]) = 5
       /\ calls[s][5].fn = "get_nearby_help"

\* C10: a summary is rendered only in a session that has had a successful
\* analysis, audio_processed stays set once it is set, and a rendered summary
\* shows the fields stored by the most recent successful analysis.
C10_SummaryGated ==
    \A s \in Sessions :
       LET page == rendered[s]
       IN /\ HasSummary(page) =>
                /\ analysed[s] # NoAnalysis
                /\ session_state[s].audio_processed = Some(TRUE)
                /\ \A i \in Elements(page, "transcription") :
                      page[i].data = Val(analysed[s]).result.transcript
                /\ \A i \in Elements(page, "json") :
                      page[i].data = Val(analysed[s]).result.entities
                /\ \A i \in Elements(page, "badge") :
                      /\ page[i].data.emo = Val(analysed[s]).result.emotion
                      /\ page[i].data.confidence = Val(analysed[s]).result.confidence
                /\ \A i \in Elements(page, "folium_map") :
                      page[i].data.location = Val(Val(analysed[s]).result.coords)
                /\ Cardinality(Elements(page, "transcription")) = 1
                /\ Cardinality(Elements(page, "badge")) = 1
          /\ analysed[s] = NoAnalysis => session_state[s] = InitialState
          /\ before[s].state.audio_processed = Some(TRUE)
                => session_state[s].audio_processed = Some(TRUE)

\* a rerun without audio, after a faultless analysis, that shows its summary
C10_Witness ==
    \E s \in Sessions :
       /\ run_status[s] = "no_audio"
       /\ HasSummary(rendered[s])
       /\ Elements(rendered[s], "folium_map") # {}

\* C4: the result a session stores is the analysis of the audio that session
\* itself uploaded or recorded in that run.
C4_Isolation ==
    \A s \in Sessions :
       run_status[s] = "ok" =>
          SameResult(session_state[s], AnalysisOf(Val(captured[s]), Val(captured[s])))

====
